---- MODULE Spec2Model ----
(***************************************************************************)
(* Order admission, balance ledger and meal lifecycle of the ganghaofan    *)
(* meal-ordering backend.                                                  *)
(*                                                                         *)
(* The database tables (users, meals, orders, ledger) are the state.  The  *)
(* repository has three sets of entry points over the same schema:         *)
(*   Svc_*  services/order_service.py   (OrderService)                     *)
(*   V1_*   api/v1/*.py                 (routes mounted by app.py)         *)
(*   Rt_*   routers/*.py                (the earlier routes)               *)
(* OrderService methods are run by threads: a method reads and validates   *)
(* first and opens its transaction afterwards, so each method is a check   *)
(* step followed by a write step.  A BEGIN..COMMIT block is one step.  The *)
(* other entry points are modelled as one step each.  A rejected request   *)
(* changes nothing; its response is the value of the *_result operator of  *)
(* its entry point.                                                        *)
(*                                                                         *)
(*   Spec      every entry point, one request at a time, no options        *)
(*   OrderSpec the order and meal entry points, one request at a time, no  *)
(*             options                                                     *)
(*   OptSpec   submit and cancel of the three layers, one request at a     *)
(*             time, with and without a selected option                    *)
(*   ModifySpec  submit, cancel and modify of the three layers, one        *)
(*             request at a time, with and without a selected option       *)
(*   PatchSpec the orders of api/v1 on a meal whose price and capacity are *)
(*             edited in place, one request at a time                      *)
(*   ConcSpec  OrderService calls of two threads interleaving step by      *)
(*             step, next to the meal administration of routers/meals.py   *)
(*   AuditSpec submit and cancel of OrderService and recharge, one request *)
(*             at a time, next to ConsistencyService                       *)
(*   AllSpec   every entry point and ConsistencyService, one request at a  *)
(*             time                                                        *)
(*   MealSpec  meal creation of routers/meals.py statement by statement in *)
(*             two threads, next to MealService.create_meal                *)
(*   IdentitySpec  first contacts of an identity through the three         *)
(*             resolvers of the users table, starting from an empty table  *)
(*   LogSpec   the routers' orders and the cancel of a meal with the rows  *)
(*             it inserts into logs                                        *)
(***************************************************************************)
EXTENDS Integers, Sequences, FiniteSets, TLC

\* ---------------------------------------------------------------- bounds
Users   == {"u1", "u2"}
Admins  == {"u2"}
Meals   == {"m1"}
Threads == {"t1", "t2"}
Prices  == {2}
Caps    == {1, 2}
Qtys    == {1, 2}
Opts    == BOOLEAN
NoOpts  == {FALSE}
RechargeUsers == {"u1"}
PatchPrices == {1, 2}
OptDelta == 1
MaxOrders == 2
MaxRecharges == 1
RechargeAmount == 5
MaxLogs == 1

\* logs holds the rows ConsistencyService inserts into the logs table and,
\* under LogSpec, the rows of cancel_meal; the log rows of the other entry
\* points are not part of the model
\* users counts the rows of the users table that carry an open_id
VARIABLES meals, orders, ledger, balance, pc, loc, logs, users

vars == <<meals, orders, ledger, balance, pc, loc, logs, users>>
db   == <<meals, orders, ledger, balance>>

NoLoc == [op |-> "none", caller |-> "u1", user |-> "u1", meal |-> "m1",
          order |-> 0, qty |-> 0, opt |-> FALSE, amount |-> 0]

NoMeal == [status |-> "absent", price |-> 0, cap |-> 0]

Init ==
    /\ meals   = [m \in Meals |-> NoMeal]
    /\ orders  = <<>>
    /\ ledger  = <<>>
    /\ balance = [u \in Users |-> 0]
    /\ pc      = [t \in Threads |-> "idle"]
    /\ loc     = [t \in Threads |-> NoLoc]
    /\ logs    = <<>>
    /\ users   = [u \in Users |-> 1]

\* ------------------------------------------------------------ SQL helpers
OrderIds == 1..Len(orders)

\* SELECT 1 FROM orders WHERE user_id=? AND meal_id=? AND status='active'
has_active_order(u, m) ==
    \E o \in OrderIds :
        /\ orders[o].user = u
        /\ orders[o].meal = m
        /\ orders[o].status = "active"

ActiveOf(m) == {o \in OrderIds : orders[o].meal = m /\ orders[o].status = "active"}

RECURSIVE SumQty(_)
SumQty(S) ==
    IF S = {} THEN 0
    ELSE LET o == CHOOSE x \in S : TRUE IN orders[o].qty + SumQty(S \ {o})

\* SELECT COALESCE(SUM(qty),0) FROM orders WHERE meal_id=? AND status='active'
total_qty(m) == SumQty(ActiveOf(m))

\* a capacity check that leaves the requested quantity out of the sum
check_capacity_exceeded_without_qty(m, qty, capacity) == total_qty(m) > capacity

check_capacity_exceeded(m, qty, capacity) == total_qty(m) + qty > capacity

\* base_price * qty + sum of the price of every selected option of the meal
calculate_order_amount(m, qty, opt) ==
    meals[m].price * qty + (IF opt THEN OptDelta ELSE 0)

LedgerRow(u, type, amount, ref_type, ref_id) ==
    [user |-> u, type |-> type, amount |-> amount,
     ref_type |-> ref_type, ref_id |-> ref_id]

OrderRow(u, m, qty, opt, amount) ==
    [user |-> u, meal |-> m, qty |-> qty, opt |-> opt, amount |-> amount,
     status |-> "active", locked |-> FALSE]

Idle(t) == pc[t] = "idle"

\* the method returns or raises: the thread is free again
Finish(t) ==
    /\ pc'  = [pc EXCEPT ![t] = "idle"]
    /\ loc' = [loc EXCEPT ![t] = NoLoc]
    /\ UNCHANGED <<logs, users>>

Goto(t, label, l) ==
    /\ pc'  = [pc EXCEPT ![t] = label]
    /\ loc' = [loc EXCEPT ![t] = l]
    /\ UNCHANGED <<logs, users>>

\* a request served in one step leaves the service threads alone
Done == UNCHANGED <<pc, loc, logs, users>>

\* orders whose INSERT is still ahead of a thread; keeps Len(orders) bounded
Pending == Cardinality({t \in Threads : pc[t] \in {"create_write", "upd_refund", "upd_create"}})

Room == Len(orders) + Pending < MaxOrders

\* a debit that takes the base price only, leaving out the options
DebitWrite_base_price(u, m, qty, opt, amount) ==
    /\ orders'  = Append(orders, OrderRow(u, m, qty, opt, amount))
    /\ ledger'  = Append(ledger, LedgerRow(u, "debit", amount, "order", Len(orders) + 1))
    /\ balance' = [balance EXCEPT ![u] = @ - meals[m].price * qty]

\* the writes of a create: INSERT orders, INSERT ledger(debit, amount),
\* UPDATE users SET balance_cents = balance_cents - amount
DebitWrite(u, m, qty, opt, amount) ==
    /\ orders'  = Append(orders, OrderRow(u, m, qty, opt, amount))
    /\ ledger'  = Append(ledger, LedgerRow(u, "debit", amount, "order", Len(orders) + 1))
    /\ balance' = [balance EXCEPT ![u] = @ - amount]

\* a refund that pays back the base price only, leaving out the options
RefundWrite_base_price(o, u, amount) ==
    /\ orders'  = [orders EXCEPT ![o].status = "canceled"]
    /\ ledger'  = Append(ledger, LedgerRow(u, "refund", amount, "order", o))
    /\ balance' = [balance EXCEPT ![u] = @ + meals[orders[o].meal].price * orders[o].qty]

\* a cancel that takes the order's debit row out of the ledger instead of
\* appending a refund row
RefundWrite_deletes_debit(o, u, amount) ==
    /\ orders'  = [orders EXCEPT ![o].status = "canceled"]
    /\ ledger'  = SelectSeq(ledger, LAMBDA r : ~(r.type = "debit" /\ r.ref_id = o))
    /\ balance' = [balance EXCEPT ![u] = @ + amount]

\* the writes of a cancel: UPDATE orders SET status='canceled',
\* INSERT ledger(refund, amount), UPDATE users SET balance_cents + amount
RefundWrite(o, u, amount) ==
    /\ orders'  = [orders EXCEPT ![o].status = "canceled"]
    /\ ledger'  = Append(ledger, LedgerRow(u, "refund", amount, "order", o))
    /\ balance' = [balance EXCEPT ![u] = @ + amount]

\* ------------------------------------------- OrderService (service layer)
\* a validation that leaves out the check for an existing active order
create_order_result_without_duplicate_check(u, m, qty) ==
    IF qty # 1 THEN "INVALID_QUANTITY"
    ELSE IF meals[m].status = "absent" THEN "MEAL_NOT_FOUND"
    ELSE IF meals[m].status # "published" THEN "MEAL_NOT_AVAILABLE"
    ELSE IF check_capacity_exceeded(m, qty, meals[m].cap) THEN "CAPACITY_EXCEEDED"
    ELSE "ok"

\* a validation that turns down a user whose balance does not cover the
\* base price
create_order_result_checks_balance(u, m, qty) ==
    IF qty # 1 THEN "INVALID_QUANTITY"
    ELSE IF meals[m].status = "absent" THEN "MEAL_NOT_FOUND"
    ELSE IF meals[m].status # "published" THEN "MEAL_NOT_AVAILABLE"
    ELSE IF has_active_order(u, m) THEN "DUPLICATE_ORDER"
    ELSE IF check_capacity_exceeded(m, qty, meals[m].cap) THEN "CAPACITY_EXCEEDED"
    ELSE IF balance[u] < meals[m].price * qty THEN "INSUFFICIENT_BALANCE"
    ELSE "ok"

\* the outcome of create_order's validation, in the order of its checks
create_order_result(u, m, qty) ==
    IF qty # 1 THEN "INVALID_QUANTITY"
    ELSE IF meals[m].status = "absent" THEN "MEAL_NOT_FOUND"
    ELSE IF meals[m].status # "published" THEN "MEAL_NOT_AVAILABLE"
    ELSE IF has_active_order(u, m) THEN "DUPLICATE_ORDER"
    ELSE IF check_capacity_exceeded(m, qty, meals[m].cap) THEN "CAPACITY_EXCEEDED"
    ELSE "ok"

\* create_order up to the call of _execute_create_order_transaction: the
\* validation reads, all made before BEGIN
create_order_check(t, op, u, m, qty, opt) ==
    /\ UNCHANGED db
    /\ IF create_order_result(u, m, qty) # "ok" THEN Finish(t)
       ELSE Goto(t, "create_write",
                 [op |-> op, caller |-> u, user |-> u, meal |-> m, order |-> 0,
                  qty |-> qty, opt |-> opt,
                  amount |-> calculate_order_amount(m, qty, opt)])

Svc_create_order(t, u, m, qty, opt) ==
    /\ Idle(t)
    /\ Room
    /\ create_order_check(t, "svc_create", u, m, qty, opt)

execute_create_order_transaction(t) ==
    /\ pc[t] = "create_write"
    /\ DebitWrite(loc[t].user, loc[t].meal, loc[t].qty, loc[t].opt, loc[t].amount)
    /\ Finish(t)
    /\ UNCHANGED meals

\* a cancel whose SELECT leaves out "AND status='active'"
cancel_order_result_any_status(o) ==
    IF o \notin OrderIds THEN "ORDER_NOT_FOUND"
    ELSE IF meals[orders[o].meal].status # "published" THEN "MEAL_LOCKED"
    ELSE "ok"

cancel_order_result(o) ==
    IF ~(o \in OrderIds /\ orders[o].status = "active") THEN "ORDER_NOT_FOUND"
    ELSE IF meals[orders[o].meal].status # "published" THEN "MEAL_LOCKED"
    ELSE "ok"

\* cancel_order up to the call of _execute_cancel_order_transaction
Svc_cancel_order(t, u, o) ==
    /\ Idle(t)
    /\ UNCHANGED db
    /\ IF cancel_order_result(o) # "ok" THEN Finish(t)
       ELSE Goto(t, "cancel_write",
                 [op |-> "svc_cancel", caller |-> u, user |-> orders[o].user,
                  meal |-> orders[o].meal, order |-> o, qty |-> 0, opt |-> FALSE,
                  amount |-> orders[o].amount])

execute_cancel_order_transaction(t) ==
    /\ pc[t] = "cancel_write"
    /\ RefundWrite(loc[t].order, loc[t].user, loc[t].amount)
    /\ Finish(t)
    /\ UNCHANGED meals

\* an update that leaves out the check of the meal's status
update_order_result_any_meal(o) ==
    IF o \notin OrderIds THEN "ORDER_NOT_FOUND"
    ELSE IF orders[o].status # "active" THEN "ORDER_NOT_ACTIVE"
    ELSE "ok"

update_order_result(o) ==
    IF o \notin OrderIds THEN "ORDER_NOT_FOUND"
    ELSE IF meals[orders[o].meal].status # "published" THEN "MEAL_LOCKED"
    ELSE IF orders[o].status # "active" THEN "ORDER_NOT_ACTIVE"
    ELSE "ok"

\* update_order up to the BEGIN of _cancel_order_internal
Svc_update_order(t, u, o, qty, opt) ==
    /\ Idle(t)
    /\ Room
    /\ UNCHANGED db
    /\ IF update_order_result(o) # "ok" THEN Finish(t)
       ELSE Goto(t, "upd_refund",
                 [op |-> "svc_update", caller |-> u, user |-> orders[o].user,
                  meal |-> orders[o].meal, order |-> o, qty |-> qty, opt |-> opt,
                  amount |-> orders[o].amount])

\* the transaction of _cancel_order_internal, then _log_order_modify
cancel_order_internal(t) ==
    /\ pc[t] = "upd_refund"
    /\ RefundWrite(loc[t].order, loc[t].user, loc[t].amount)
    /\ Goto(t, "upd_create", loc[t])
    /\ UNCHANGED meals

\* update_order's closing call: create_order(user_open_id, meal_id, qty, opts)
update_order_create(t) ==
    /\ pc[t] = "upd_create"
    /\ create_order_check(t, "svc_update", loc[t].caller, loc[t].meal,
                          loc[t].qty, loc[t].opt)

OrderIdArgs == 1..MaxOrders

\* no other thread is inside an OrderService method
Alone(t) == \A s \in Threads \ {t} : pc[s] = "idle"

\* with serial, thread t moves only while every other thread is idle
Turn(t, serial) == serial => Alone(t)

\* the calls of thread t, options drawn from O
SubmitCancelStep(t, serial, O) ==
    \/ \E u \in Users, m \in Meals, q \in Qtys, opt \in O :
           Turn(t, serial) /\ Svc_create_order(t, u, m, q, opt)
    \/ Turn(t, serial) /\ execute_create_order_transaction(t)
    \/ \E u \in Users, o \in OrderIdArgs : Turn(t, serial) /\ Svc_cancel_order(t, u, o)
    \/ Turn(t, serial) /\ execute_cancel_order_transaction(t)

UpdateStep(t, serial, O) ==
    \/ \E u \in Users, o \in OrderIdArgs, q \in Qtys, opt \in O :
           Turn(t, serial) /\ Svc_update_order(t, u, o, q, opt)
    \/ Turn(t, serial) /\ cancel_order_internal(t)
    \/ Turn(t, serial) /\ update_order_create(t)

ThreadStep(t, serial, O) == SubmitCancelStep(t, serial, O) \/ UpdateStep(t, serial, O)

\* ------------------------------------------------ cascades over a meal
Min(S) == CHOOSE x \in S : \A y \in S : x <= y

\* one loop iteration per active order: UPDATE orders, INSERT ledger(refund),
\* UPDATE users
RECURSIVE CascadeLedger(_, _)
CascadeLedger(S, led) ==
    IF S = {} THEN led
    ELSE LET o == Min(S) IN
         CascadeLedger(S \ {o},
             Append(led, LedgerRow(orders[o].user, "refund", orders[o].amount, "order", o)))

RECURSIVE CascadeBalance(_, _)
CascadeBalance(S, bal) ==
    IF S = {} THEN bal
    ELSE LET o == Min(S) IN
         CascadeBalance(S \ {o}, [bal EXCEPT ![orders[o].user] = @ + orders[o].amount])

\* a cascade that leaves the last order of the meal as it is
CascadeOrders_skips_last(S) ==
    [o \in OrderIds |-> IF o \in S /\ \E x \in S : x > o
                        THEN [orders[o] EXCEPT !.status = "canceled"]
                        ELSE orders[o]]

CascadeOrders(S) ==
    [o \in OrderIds |-> IF o \in S THEN [orders[o] EXCEPT !.status = "canceled"]
                        ELSE orders[o]]

Recharges == Cardinality({i \in 1..Len(ledger) : ledger[i].type = "recharge"})

\* --------------------------------------------------- routers/meals.py
\* an existing canceled meal of the same date and slot is overwritten and
\* published again; any other existing meal is a 409
Rt_create_meal_result(m) ==
    IF meals[m].status \in {"absent", "canceled"} THEN "ok" ELSE "409"

\* a re-publication of a canceled meal that puts its canceled orders back
Rt_create_meal_restores_orders(m, price, cap) ==
    /\ meals' = IF Rt_create_meal_result(m) = "ok"
                THEN [meals EXCEPT ![m] = [status |-> "published", price |-> price, cap |-> cap]]
                ELSE meals
    /\ orders' = [o \in DOMAIN orders |->
                    IF orders[o].meal = m /\ meals[m].status = "canceled"
                    THEN [orders[o] EXCEPT !.status = "active"]
                    ELSE orders[o]]
    /\ UNCHANGED <<ledger, balance>>
    /\ Done

Rt_create_meal(m, price, cap) ==
    /\ meals' = IF Rt_create_meal_result(m) = "ok"
                THEN [meals EXCEPT ![m] = [status |-> "published", price |-> price, cap |-> cap]]
                ELSE meals
    /\ UNCHANGED <<orders, ledger, balance>>
    /\ Done

\* UPDATE meals SET ... WHERE meal_id=? AND status='published'
Rt_update_meal_patch(m, price, cap) ==
    /\ meals' = IF meals[m].status = "published"
                THEN [meals EXCEPT ![m].price = price, ![m].cap = cap]
                ELSE meals
    /\ UNCHANGED <<orders, ledger, balance>>
    /\ Done

Rt_lock_meal_result(m) == IF meals[m].status = "published" THEN "ok" ELSE "400"

Rt_lock_meal(m) ==
    /\ IF Rt_lock_meal_result(m) # "ok" THEN UNCHANGED <<meals, orders>>
       ELSE /\ meals'  = [meals EXCEPT ![m].status = "locked"]
            /\ orders' = [o \in OrderIds |->
                            IF o \in ActiveOf(m) THEN [orders[o] EXCEPT !.locked = TRUE]
                            ELSE orders[o]]
    /\ UNCHANGED <<ledger, balance>>
    /\ Done

Rt_unlock_meal_result(m) == IF meals[m].status = "locked" THEN "ok" ELSE "400"

Rt_unlock_meal(m) ==
    /\ IF Rt_unlock_meal_result(m) # "ok" THEN UNCHANGED <<meals, orders>>
       ELSE /\ meals'  = [meals EXCEPT ![m].status = "published"]
            /\ orders' = [o \in OrderIds |->
                            IF o \in ActiveOf(m) THEN [orders[o] EXCEPT !.locked = FALSE]
                            ELSE orders[o]]
    /\ UNCHANGED <<ledger, balance>>
    /\ Done

\* UPDATE meals SET status='completed' WHERE meal_id=? AND status='locked';
\* the response is {"status": "completed"} whether or not a row matched
Rt_complete_meal_result(m) == "completed"

Rt_complete_meal(m) ==
    /\ meals' = IF meals[m].status = "locked"
                THEN [meals EXCEPT ![m].status = "completed"]
                ELSE meals
    /\ UNCHANGED <<orders, ledger, balance>>
    /\ Done

Rt_cancel_meal_result(m) ==
    IF meals[m].status \in {"published", "locked"} THEN "ok" ELSE "400"

\* the transaction of cancel_meal
Rt_cancel_meal_writes(m) ==
    IF Rt_cancel_meal_result(m) # "ok" THEN UNCHANGED db
    ELSE /\ meals'   = [meals EXCEPT ![m].status = "canceled"]
         /\ orders'  = CascadeOrders(ActiveOf(m))
         /\ ledger'  = CascadeLedger(ActiveOf(m), ledger)
         /\ balance' = CascadeBalance(ActiveOf(m), balance)

Rt_cancel_meal(m) ==
    /\ Rt_cancel_meal_writes(m)
    /\ Done

Rt_repost_meal_result(m) == IF meals[m].status = "published" THEN "ok" ELSE "400"

Rt_repost_meal(m, price, cap) ==
    /\ IF Rt_repost_meal_result(m) # "ok" THEN UNCHANGED db
       ELSE /\ meals'   = [meals EXCEPT ![m].price = price, ![m].cap = cap]
            /\ orders'  = CascadeOrders(ActiveOf(m))
            /\ ledger'  = CascadeLedger(ActiveOf(m), ledger)
            /\ balance' = CascadeBalance(ActiveOf(m), balance)
    /\ Done

\* routers/users.py recharge and api/v1/users.py recharge_user: same writes.
\* Both handlers receive the caller's open_id and never read it ("TODO: check
\* admin"), so the caller is a parameter their writes do not depend on.
recharge(u, amount) ==
    /\ Recharges < MaxRecharges
    /\ IF amount <= 0 THEN UNCHANGED <<ledger, balance>>
       ELSE /\ balance' = [balance EXCEPT ![u] = @ + amount]
            /\ ledger'  = Append(ledger, LedgerRow(u, "recharge", amount, "manual", 0))
    /\ UNCHANGED <<meals, orders>>
    /\ Done

Rt_recharge(caller, u, amount) == recharge(u, amount)

\* --------------------------------------------------- routers/orders.py
Rt_create_order_result(u, m, qty) ==
    IF meals[m].status = "absent" THEN "404"
    ELSE IF meals[m].status # "published" THEN "400 meal not open for orders"
    ELSE IF qty # 1 THEN "400 qty must be 1"
    ELSE IF has_active_order(u, m) THEN "409 already ordered"
    ELSE IF total_qty(m) + qty > meals[m].cap THEN "409 capacity exceeded"
    ELSE "ok"

Rt_create_order(u, m, qty, opt) ==
    /\ UNCHANGED meals
    /\ Done
    /\ IF Rt_create_order_result(u, m, qty) # "ok" THEN UNCHANGED <<orders, ledger, balance>>
       ELSE /\ Room
            /\ DebitWrite(u, m, qty, opt, meals[m].price * qty)

Rt_delete_order_result(caller, o) ==
    IF ~(o \in OrderIds /\ orders[o].status = "active") THEN "404"
    ELSE IF caller # orders[o].user THEN "403"
    ELSE IF meals[orders[o].meal].status # "published" THEN "400 cannot cancel after lock"
    ELSE "ok"

Rt_delete_order(caller, o) ==
    /\ UNCHANGED meals
    /\ Done
    /\ IF Rt_delete_order_result(caller, o) # "ok" THEN UNCHANGED <<orders, ledger, balance>>
       ELSE RefundWrite(o, orders[o].user, orders[o].amount)

\* the part of update_order before "cancel old"
Rt_update_order_result(caller, o) ==
    IF o \notin OrderIds THEN "404"
    ELSE IF caller # orders[o].user THEN "403"
    ELSE IF meals[orders[o].meal].status # "published" THEN "400 meal not open for modification"
    ELSE IF orders[o].status # "active" THEN "400 order not active"
    ELSE "ok"

\* the outcome of the create_order call that closes update_order, evaluated
\* on the committed result of "cancel old"
Rt_update_recreate_result(caller, o, qty) ==
    LET m == orders[o].meal IN
    IF qty # 1 THEN "400 qty must be 1"
    ELSE IF \E x \in OrderIds \ {o} : /\ orders[x].user = caller
                                      /\ orders[x].meal = m
                                      /\ orders[x].status = "active"
         THEN "409 already ordered"
    ELSE IF total_qty(m) - orders[o].qty + qty > meals[m].cap THEN "409 capacity exceeded"
    ELSE "ok"

Rt_update_order(caller, o, qty, opt) ==
    /\ UNCHANGED meals
    /\ Done
    /\ IF Rt_update_order_result(caller, o) # "ok" THEN UNCHANGED <<orders, ledger, balance>>
       ELSE LET m    == orders[o].meal
                amt  == orders[o].amount
                ords == [orders EXCEPT ![o].status = "canceled"]
                led  == Append(ledger, LedgerRow(caller, "refund", amt, "order", o))
                bal  == [balance EXCEPT ![caller] = @ + amt]
                new  == meals[m].price * qty
            IN  IF Rt_update_recreate_result(caller, o, qty) # "ok" THEN
                    orders' = ords /\ ledger' = led /\ balance' = bal
                ELSE
                    /\ Room
                    /\ orders'  = Append(ords, OrderRow(caller, m, qty, opt, new))
                    /\ ledger'  = Append(led, LedgerRow(caller, "debit", new, "order", Len(orders) + 1))
                    /\ balance' = [bal EXCEPT ![caller] = @ - new]

\* --------------------------------------------------------- api/v1/*.py
V1_create_order_result(u, m, qty) ==
    IF meals[m].status = "absent" THEN "MealNotFoundError"
    ELSE IF meals[m].status # "published" THEN "ValidationError"
    ELSE IF has_active_order(u, m) THEN "DuplicateOrderError"
    ELSE IF total_qty(m) + qty > meals[m].cap THEN "CapacityExceededError"
    ELSE "ok"

V1_create_order(u, m, qty, opt) ==
    /\ UNCHANGED meals
    /\ Done
    /\ IF V1_create_order_result(u, m, qty) # "ok" THEN UNCHANGED <<orders, ledger, balance>>
       ELSE /\ Room
            /\ DebitWrite(u, m, qty, opt, meals[m].price * qty)

V1_cancel_order_result(o) ==
    IF ~(o \in OrderIds /\ orders[o].status = "active") THEN "OrderNotFoundError"
    ELSE IF meals[orders[o].meal].status # "published" THEN "ValidationError"
    ELSE "ok"

V1_cancel_order(caller, o) ==
    /\ UNCHANGED meals
    /\ Done
    /\ IF V1_cancel_order_result(o) # "ok" THEN UNCHANGED <<orders, ledger, balance>>
       ELSE RefundWrite(o, orders[o].user, orders[o].amount)

\* update_order edits the row in place.  When the amount changes, its ledger
\* INSERT carries ref_type 'order_update', which the CHECK constraint of
\* ledger.ref_type rejects: the transaction is rolled back (response 500).
V1_update_order_result(caller, o, qty) ==
    IF ~(o \in OrderIds /\ orders[o].user = caller) THEN "OrderNotFoundError"
    ELSE IF orders[o].status # "active" THEN "ValidationError"
    ELSE IF meals[orders[o].meal].status # "published" THEN "ValidationError"
    ELSE IF meals[orders[o].meal].price * qty # orders[o].amount THEN "500"
    ELSE "ok"

\* an in-place update that rewrites the amount with the options' prices and
\* writes no ledger row for the difference
V1_update_order_rewrites_amount(caller, o, qty, opt) ==
    /\ UNCHANGED <<meals, ledger, balance>>
    /\ Done
    /\ orders' = IF V1_update_order_result(caller, o, qty) # "ok" THEN orders
                 ELSE [orders EXCEPT ![o].qty = qty, ![o].opt = opt,
                           ![o].amount = calculate_order_amount(orders[o].meal, qty, opt)]

V1_update_order(caller, o, qty, opt) ==
    /\ UNCHANGED <<meals, ledger, balance>>
    /\ Done
    /\ orders' = IF V1_update_order_result(caller, o, qty) # "ok" THEN orders
                 ELSE [orders EXCEPT ![o].qty = qty, ![o].opt = opt]

\* lock_meal / unlock_meal: admin check, existence check, then
\* UPDATE meals SET status = ... WHERE meal_id = ?
V1_set_status_result(caller, m) ==
    IF caller \notin Admins THEN "403"
    ELSE IF meals[m].status = "absent" THEN "404"
    ELSE "ok"

V1_lock_meal(caller, m) ==
    /\ meals' = IF V1_set_status_result(caller, m) # "ok" THEN meals
                ELSE [meals EXCEPT ![m].status = "locked"]
    /\ UNCHANGED <<orders, ledger, balance>>
    /\ Done

V1_unlock_meal(caller, m) ==
    /\ meals' = IF V1_set_status_result(caller, m) # "ok" THEN meals
                ELSE [meals EXCEPT ![m].status = "published"]
    /\ UNCHANGED <<orders, ledger, balance>>
    /\ Done

\* cancel_meal calls db_manager.execute_all, which DatabaseManager does not
\* define: the AttributeError rolls the transaction back (response 500)
V1_cancel_meal_result(caller, m) ==
    IF caller \notin Admins THEN "403"
    ELSE IF meals[m].status = "absent" THEN "404"
    ELSE "500"

V1_cancel_meal(caller, m) ==
    /\ V1_cancel_meal_result(caller, m) # "ok"
    /\ UNCHANGED db
    /\ Done

V1_recharge_user(caller, u, amount) == recharge(u, amount)

\* adjust_user_balance: its first write, UPDATE users SET ..., updated_at =
\* now(), names a column the users table does not have, and its ledger type
\* 'adjustment_credit'/'adjustment_debit' is outside the CHECK list: rollback
V1_adjust_user_balance_result(caller, amount) ==
    IF caller \notin Admins THEN "403"
    ELSE IF amount = 0 THEN "400"
    ELSE "500"

V1_adjust_user_balance(caller, u, amount) ==
    /\ V1_adjust_user_balance_result(caller, amount) # "ok"
    /\ UNCHANGED db
    /\ Done

Amounts == {0, RechargeAmount}

\* ------------------------------------------------------------ next-state
AllIdle == \A t \in Threads : pc[t] = "idle"

\* the routes in groups, each taken while no thread is inside a method
MealOps ==
    \/ \E m \in Meals, p \in Prices, c \in Caps : AllIdle /\ Rt_create_meal(m, p, c)
    \/ \E m \in Meals, p \in Prices, c \in Caps : AllIdle /\ Rt_update_meal_patch(m, p, c)
    \/ \E m \in Meals : AllIdle /\ Rt_lock_meal(m)
    \/ \E m \in Meals : AllIdle /\ Rt_unlock_meal(m)
    \/ \E m \in Meals : AllIdle /\ Rt_complete_meal(m)
    \/ \E m \in Meals : AllIdle /\ Rt_cancel_meal(m)
    \/ \E m \in Meals, p \in Prices, c \in Caps : AllIdle /\ Rt_repost_meal(m, p, c)
    \/ \E u \in Users, m \in Meals : AllIdle /\ V1_lock_meal(u, m)
    \/ \E u \in Users, m \in Meals : AllIdle /\ V1_unlock_meal(u, m)
    \/ \E u \in Users, m \in Meals : AllIdle /\ V1_cancel_meal(u, m)

MoneyOps ==
    \/ \E c \in Users, u \in RechargeUsers, a \in Amounts : AllIdle /\ Rt_recharge(c, u, a)
    \/ \E c \in Users, u \in RechargeUsers, a \in Amounts : AllIdle /\ V1_recharge_user(c, u, a)
    \/ \E c \in Users, u \in Users, a \in Amounts : AllIdle /\ V1_adjust_user_balance(c, u, a)

SubmitCancelOps(O) ==
    \/ \E u \in Users, m \in Meals, q \in Qtys, opt \in O : AllIdle /\ Rt_create_order(u, m, q, opt)
    \/ \E u \in Users, o \in OrderIdArgs : AllIdle /\ Rt_delete_order(u, o)
    \/ \E u \in Users, m \in Meals, q \in Qtys, opt \in O : AllIdle /\ V1_create_order(u, m, q, opt)
    \/ \E u \in Users, o \in OrderIdArgs : AllIdle /\ V1_cancel_order(u, o)

UpdateOps(O) ==
    \/ \E u \in Users, o \in OrderIdArgs, q \in Qtys, opt \in O : AllIdle /\ Rt_update_order(u, o, q, opt)
    \/ \E u \in Users, o \in OrderIdArgs, q \in Qtys, opt \in O : AllIdle /\ V1_update_order(u, o, q, opt)

\* every entry point, one request at a time
Next ==
    \/ \E t \in Threads : ThreadStep(t, TRUE, NoOpts)
    \/ MealOps
    \/ MoneyOps
    \/ SubmitCancelOps(NoOpts)
    \/ UpdateOps(NoOpts)

Spec == Init /\ [][Next]_vars

\* the order and meal entry points, one request at a time
OrderNext ==
    \/ \E t \in Threads : ThreadStep(t, TRUE, NoOpts)
    \/ MealOps
    \/ SubmitCancelOps(NoOpts)
    \/ UpdateOps(NoOpts)

OrderSpec == Init /\ [][OrderNext]_vars

\* submit and cancel with options, one request at a time
OptNext ==
    \/ \E t \in Threads : SubmitCancelStep(t, TRUE, Opts)
    \/ SubmitCancelOps(Opts)
    \/ \E m \in Meals, p \in Prices, c \in Caps : AllIdle /\ Rt_create_meal(m, p, c)

OptSpec == Init /\ [][OptNext]_vars

\* submit, cancel and modify with options, one request at a time
ModifyNext ==
    \/ \E t \in Threads : ThreadStep(t, TRUE, Opts)
    \/ SubmitCancelOps(Opts)
    \/ UpdateOps(Opts)
    \/ \E m \in Meals, p \in Prices, c \in Caps : AllIdle /\ Rt_create_meal(m, p, c)

ModifySpec == Init /\ [][ModifyNext]_vars

\* the orders of api/v1 on a meal whose price and capacity an admin edits in
\* place, one request at a time
PatchNext ==
    \/ \E m \in Meals, p \in PatchPrices, c \in Caps : AllIdle /\ Rt_create_meal(m, p, c)
    \/ \E m \in Meals, p \in PatchPrices, c \in Caps : AllIdle /\ Rt_update_meal_patch(m, p, c)
    \/ \E u \in Users, m \in Meals, q \in Qtys, opt \in NoOpts : AllIdle /\ V1_create_order(u, m, q, opt)
    \/ \E u \in Users, o \in OrderIdArgs : AllIdle /\ V1_cancel_order(u, o)
    \/ \E u \in Users, o \in OrderIdArgs, q \in Qtys, opt \in NoOpts : AllIdle /\ V1_update_order(u, o, q, opt)

PatchSpec == Init /\ [][PatchNext]_vars

\* OrderService calls of the threads interleave step by step
ConcAdmin ==
    \/ \E m \in Meals, p \in Prices, c \in Caps : Rt_create_meal(m, p, c)
    \/ \E m \in Meals : Rt_lock_meal(m)
    \/ \E m \in Meals : Rt_unlock_meal(m)
    \/ \E m \in Meals : Rt_cancel_meal(m)

ConcNext == (\E t \in Threads : ThreadStep(t, FALSE, NoOpts)) \/ ConcAdmin

ConcSpec == Init /\ [][ConcNext]_vars

\* ------------------------------------------- services/consistency_service.py
RECURSIVE SumAmount(_, _)
SumAmount(rows, S) ==
    IF S = {} THEN 0
    ELSE LET i == CHOOSE x \in S : TRUE IN rows[i].amount + SumAmount(rows, S \ {i})

\* COALESCE(SUM(l.amount_cents), 0) over the user's ledger rows
ledger_balance(u) == SumAmount(ledger, {i \in 1..Len(ledger) : ledger[i].user = u})

\* the users _check_user_balance_consistency reports as 'balance_mismatch'
balance_mismatch == {u \in Users : balance[u] # ledger_balance(u)}

\* a check that reports the difference the other way round
check_user_balance_consistency_reversed_difference ==
    {[type |-> "balance_mismatch",
      details |-> [user_id |-> u,
                   user_balance_cents |-> balance[u],
                   ledger_balance_cents |-> ledger_balance(u),
                   difference_cents |-> ledger_balance(u) - balance[u]]] :
        u \in balance_mismatch}

\* _check_user_balance_consistency: one issue for every row of users LEFT
\* JOIN ledger ... HAVING u.balance_cents != COALESCE(SUM(l.amount_cents), 0)
check_user_balance_consistency ==
    {[type |-> "balance_mismatch",
      details |-> [user_id |-> u,
                   user_balance_cents |-> balance[u],
                   ledger_balance_cents |-> ledger_balance(u),
                   difference_cents |-> balance[u] - ledger_balance(u)]] :
        u \in balance_mismatch}

\* _check_order_consistency: users with more than one active order of a meal
\* (an order always names a user and a meal of the model, so the orphaned
\* orders query has no rows)
check_order_consistency ==
    {[type |-> "duplicate_orders",
      details |-> [user_id |-> p[1], meal_id |-> p[2],
                   duplicate_count |->
                       Cardinality({o \in ActiveOf(p[2]) : orders[o].user = p[1]})]] :
        p \in {q \in Users \X Meals :
                  Cardinality({o \in ActiveOf(q[2]) : orders[o].user = q[1]}) > 1}}

\* _check_meal_capacity_consistency: meals whose active quantities exceed
\* the capacity
check_meal_capacity_consistency ==
    {[type |-> "capacity_exceeded",
      details |-> [meal_id |-> m, capacity |-> meals[m].cap,
                   ordered_qty |-> total_qty(m),
                   excess |-> total_qty(m) - meals[m].cap]] :
        m \in {x \in Meals : meals[x].status # "absent" /\ total_qty(x) > meals[x].cap}}

\* _check_ledger_integrity: active orders without a debit row of their own
check_ledger_integrity ==
    {[type |-> "missing_ledger_entry",
      details |-> [order_id |-> o, user_id |-> orders[o].user,
                   amount_cents |-> orders[o].amount]] :
        o \in {x \in OrderIds :
                  /\ orders[x].status = "active"
                  /\ ~ \E i \in 1..Len(ledger) :
                         /\ ledger[i].ref_id = x
                         /\ ledger[i].ref_type = "order"
                         /\ ledger[i].type = "debit"}}

\* _check_potential_issues: add_warning('negative_balance') for the users
\* WHERE balance_cents < 0 (the stale-meal warning reads dates, which the
\* model does not hold)
check_potential_issues ==
    {[type |-> "negative_balance", severity |-> "warning",
      details |-> [user_id |-> u, balance_cents |-> balance[u]]] :
        u \in {x \in Users : balance[x] < 0}}

\* the issues and warnings of ConsistencyCheckResult after the checks have
\* run: add_issue stamps severity 'error', add_warning 'warning'
Issues ==
    {r \in check_potential_issues : r.severity = "error"}
        \cup {[type |-> r.type, severity |-> "error", details |-> r.details] :
                 r \in check_user_balance_consistency \cup check_order_consistency
                       \cup check_meal_capacity_consistency \cup check_ledger_integrity}

Warnings == {r \in check_potential_issues : r.severity = "warning"}

LogRow(user, actor, action, detail) ==
    [user |-> user, actor |-> actor, action |-> action, detail |-> detail]

\* check_data_consistency(operator_id): raises for an operator who is not an
\* administrator; otherwise runs the checks and returns issues, warnings and
\* the summary status
check_data_consistency_result(operator) ==
    IF operator \notin Admins THEN "PermissionDeniedError"
    ELSE [issues |-> Issues, warnings |-> Warnings,
          status |-> IF Issues = {} THEN "healthy" ELSE "issues_found"]

\* a check that repairs the balances it finds mismatched
check_data_consistency_and_fix(operator) ==
    /\ Len(logs) < MaxLogs
    /\ UNCHANGED <<meals, orders, ledger, pc, loc, users>>
    /\ IF operator \notin Admins THEN UNCHANGED <<balance, logs>>
       ELSE /\ balance' = [u \in Users |-> ledger_balance(u)]
            /\ logs' = Append(logs, LogRow("none", operator, "consistency_check",
                               [total_issues |-> Cardinality(Issues),
                                total_warnings |-> Cardinality(Warnings)]))

\* the reads of the checks and the INSERT INTO logs of _log_consistency_check
check_data_consistency(operator) ==
    /\ Len(logs) < MaxLogs
    /\ UNCHANGED <<db, pc, loc, users>>
    /\ IF operator \notin Admins THEN UNCHANGED logs
       ELSE logs' = Append(logs, LogRow("none", operator, "consistency_check",
                               [total_issues |-> Cardinality(Issues),
                                total_warnings |-> Cardinality(Warnings)]))

\* what fix_balance_inconsistency returns or raises
fix_balance_inconsistency_result(user, operator) ==
    IF operator \notin Admins THEN "PermissionDeniedError"
    ELSE IF balance[user] # ledger_balance(user)
         THEN [fixed |-> TRUE,
               old_balance_cents |-> balance[user],
               new_balance_cents |-> ledger_balance(user),
               difference_cents  |-> ledger_balance(user) - balance[user]]
         ELSE [fixed |-> FALSE]

\* a repair that leaves the cached balance as it is and only writes the log
fix_balance_write_log_only(user, operator, correct_balance) ==
    /\ UNCHANGED balance
    /\ logs' = Append(logs, LogRow(user, operator, "consistency_fix",
                   [old_balance_cents     |-> balance[user],
                    correct_balance_cents |-> correct_balance,
                    difference_cents      |-> correct_balance - balance[user]]))

\* the writes of fix_balance_inconsistency: UPDATE users SET balance_cents =
\* correct_balance, INSERT INTO logs(..., 'consistency_fix', log_details)
fix_balance_write(user, operator, correct_balance) ==
    /\ balance' = [balance EXCEPT ![user] = correct_balance]
    /\ logs' = Append(logs, LogRow(user, operator, "consistency_fix",
                   [old_balance_cents     |-> balance[user],
                    correct_balance_cents |-> correct_balance,
                    difference_cents      |-> correct_balance - balance[user]]))

\* fix_balance_inconsistency(user_id, operator_id), one transaction
fix_balance_inconsistency(user, operator) ==
    /\ Len(logs) < MaxLogs
    /\ UNCHANGED <<meals, orders, ledger, pc, loc, users>>
    /\ IF operator \in Admins /\ balance[user] # ledger_balance(user)
       THEN fix_balance_write(user, operator, ledger_balance(user))
       ELSE UNCHANGED <<balance, logs>>

\* OrderService submit and cancel and recharge next to the consistency
\* service, one request at a time
AuditNext ==
    \/ \E t \in Threads : SubmitCancelStep(t, TRUE, NoOpts)
    \/ \E m \in Meals, p \in Prices, c \in Caps : AllIdle /\ Rt_create_meal(m, p, c)
    \/ \E c \in Users, u \in RechargeUsers, a \in Amounts : AllIdle /\ V1_recharge_user(c, u, a)
    \/ \E c \in Users : AllIdle /\ check_data_consistency(c)
    \/ \E c \in Users, u \in Users : AllIdle /\ fix_balance_inconsistency(u, c)

AuditSpec == Init /\ [][AuditNext]_vars

\* every entry point and the consistency service, one request at a time
AllNext ==
    \/ Next
    \/ \E c \in Users : AllIdle /\ check_data_consistency(c)
    \/ \E c \in Users, u \in Users : AllIdle /\ fix_balance_inconsistency(u, c)

AllSpec == Init /\ [][AllNext]_vars

\* ------------------------------------------------- what a step has done
\* the ledger rows a step has appended
NewRows == (Len(ledger) + 1)..Len(ledger')

\* the orders a step has inserted for u, and u's orders it has canceled
CreatedFor(u) == {o \in DOMAIN orders' : o \notin OrderIds /\ orders'[o].user = u}

CanceledOf(u) ==
    {o \in OrderIds : /\ orders[o].user = u
                      /\ orders[o].status = "active"
                      /\ orders'[o].status = "canceled"}

\* the meal exists and is not open for orders
Closed(m) == meals[m].status \in {"locked", "completed", "canceled"}

\* ---------------------------------------------------------------- claims

\* C1: under every interleaving of submissions and cancellations on a meal,
\* the quantities of the meal's active orders add up to at most its capacity.
CapacityNeverExceeded == \A m \in Meals : total_qty(m) <= meals[m].cap

\* C2: under every interleaving of submit, modify and cancel there is at most
\* one active order for a user and a meal.
AtMostOneActiveOrder ==
    \A u \in Users, m \in Meals :
        Cardinality({o \in ActiveOf(m) : orders[o].user = u}) <= 1

\* C3: with one request at a time, every user's balance is the sum of the
\* signed amounts of the user's ledger rows, and the consistency check
\* reports no balance mismatch.
BalanceReconciled ==
    /\ \A u \in Users : balance[u] = ledger_balance(u)
    /\ balance_mismatch = {}

\* C4: the signed amount a step records in the ledger for a user is the change
\* the step makes to that user's balance; debit rows are negative, recharge and
\* refund rows positive.
LedgerAmountIsBalanceChange ==
    [][/\ \A u \in Users :
            balance'[u] - balance[u] =
                SumAmount(ledger', {i \in NewRows : ledger'[i].user = u})
       /\ \A i \in NewRows :
            /\ ledger'[i].type = "debit" => ledger'[i].amount < 0
            /\ ledger'[i].type \in {"recharge", "refund"} => ledger'[i].amount > 0]_vars

\* C5: when the second half of a modification fails, the first half is undone:
\* the original order is active again and has no refund row.
ModifyAtomic ==
    [][\A t \in Threads :
          (pc[t] = "upd_create" /\ pc'[t] = "idle") =>
              /\ orders'[loc[t].order].status = "active"
              /\ ~\E i \in 1..Len(ledger') :
                     /\ ledger'[i].type = "refund"
                     /\ ledger'[i].ref_id = loc[t].order]_vars

\* C6: an admin's cancel of a published or locked meal goes through at both
\* cancel_meal entry points (and then cancels and refunds the active orders).
CancelMealGoesThrough ==
    \A m \in Meals :
        meals[m].status \in {"published", "locked"} =>
            /\ Rt_cancel_meal_result(m) = "ok"
            /\ \A c \in Admins : V1_cancel_meal_result(c, m) = "ok"

ClosedMealResponses ==
    \A m \in Meals : Closed(m) =>
        /\ \A u \in Users :
              /\ create_order_result(u, m, 1) = "MEAL_NOT_AVAILABLE"
              /\ \A q \in Qtys :
                    /\ create_order_result(u, m, q) # "ok"
                    /\ V1_create_order_result(u, m, q) = "ValidationError"
                    /\ Rt_create_order_result(u, m, q) = "400 meal not open for orders"
        /\ \A o \in OrderIds : orders[o].meal = m =>
              /\ update_order_result(o) = "MEAL_LOCKED"
              /\ cancel_order_result(o) =
                     IF orders[o].status = "active" THEN "MEAL_LOCKED"
                     ELSE "ORDER_NOT_FOUND"
              /\ V1_cancel_order_result(o) # "ok"
              /\ \A c \in Users :
                    /\ Rt_delete_order_result(c, o) # "ok"
                    /\ Rt_update_order_result(c, o) # "ok"
                    /\ \A q \in Qtys : V1_update_order_result(c, o, q) # "ok"

\* a step that leaves the meals alone changes no order of a meal that is not
\* published, adds no order to it, records no ledger row for its orders, and
\* changes a balance only together with a ledger row of that user
ClosedMealFrame ==
    \A m \in Meals : (Closed(m) /\ meals' = meals) =>
        /\ \A o \in DOMAIN orders' :
              orders'[o].meal = m => (o \in OrderIds /\ orders'[o] = orders[o])
        /\ \A i \in NewRows :
              ~(ledger'[i].ref_type = "order" /\ orders'[ledger'[i].ref_id].meal = m)
        /\ \A u \in Users :
              balance'[u] # balance[u] => \E i \in NewRows : ledger'[i].user = u

TerminalStatusFinal ==
    [][\A m \in Meals :
          meals[m].status \in {"completed", "canceled"} =>
              meals'[m].status = meals[m].status]_vars

\* C9: a submit takes the order's amount from the user's balance, a cancel of
\* the order gives the same amount back, and the amount of an order never
\* changes in between: submit followed by cancel restores the balance.
SubmitCancelRoundTrip ==
    [][/\ \A u \in Users :
            balance'[u] = balance[u] - SumAmount(orders', CreatedFor(u))
                                     + SumAmount(orders, CanceledOf(u))
       /\ \A o \in OrderIds :
            /\ orders'[o].amount = orders[o].amount
            /\ orders'[o].user = orders[o].user]_vars

\* an order with a selected option was submitted at balance 0 and canceled
RoundTripDone ==
    /\ Len(orders) = 1
    /\ orders[1].status = "canceled"
    /\ orders[1].opt
    /\ Len(ledger) = 2
    /\ balance[orders[1].user] = 0

\* C10 as stated: a cancel of a canceled order fails with OrderNotActive.
SecondCancelRaisesOrderNotActive ==
    \A o \in OrderIds :
        orders[o].status = "canceled" => cancel_order_result(o) = "ORDER_NOT_ACTIVE"

\* C10: a cancel of an order that is already canceled is rejected as order not
\* found at the three cancel entry points; the order stays canceled, no ledger
\* row is recorded for it, and a balance changes only together with a ledger
\* row of that user.
SecondCancelRejected ==
    [][\A o \in OrderIds : orders[o].status = "canceled" =>
          /\ cancel_order_result(o) = "ORDER_NOT_FOUND"
          /\ V1_cancel_order_result(o) = "OrderNotFoundError"
          /\ \A c \in Users : Rt_delete_order_result(c, o) = "404"
          /\ orders'[o] = orders[o]
          /\ \A i \in NewRows :
                ~(ledger'[i].ref_type = "order" /\ ledger'[i].ref_id = o)
          /\ \A u \in Users :
                balance'[u] # balance[u] => \E i \in NewRows : ledger'[i].user = u]_vars

\* an order was canceled and its meal is still open for orders
CanceledOrderOnOpenMeal ==
    \E o \in OrderIds :
        /\ orders[o].status = "canceled"
        /\ meals[orders[o].meal].status = "published"
        /\ \E i \in 1..Len(ledger) : ledger[i].type = "refund" /\ ledger[i].ref_id = o

\* the orders a step has inserted for meal m
CreatedOn(m) == {o \in DOMAIN orders' : o \notin OrderIds /\ orders'[o].meal = m}

\* u's active order of meal m is canceled by the step
CancelsOrderOf(u, m) == \E x \in CanceledOf(u) : orders[x].meal = m

RejectedRequestChangesNothing ==
    \A t \in Threads :
        (/\ pc[t] = "upd_create"
         /\ create_order_result(loc[t].caller, loc[t].meal, loc[t].qty) # "ok") =>
            /\ orders[loc[t].order].status = "active"
            /\ ledger[Len(ledger)].type # "refund"

\* C14: an operation that fails is rolled back completely; the step in which a
\* modification fails leaves the order active, the ledger without the refund
\* row and the balance without the credit of the operation's first half.
OperationAllOrNothing ==
    [][\A t \in Threads :
          (pc[t] = "upd_create" /\ pc'[t] = "idle") =>
              /\ orders'  = [orders EXCEPT ![loc[t].order].status = "active"]
              /\ ledger'  = SubSeq(ledger, 1, Len(ledger) - 1)
              /\ balance' = [balance EXCEPT ![loc[t].user] = @ - loc[t].amount]]_vars

\* C15: a step that takes a meal to locked starts from published and leaves
\* every order of the meal that is active at that moment with its lock
\* timestamp set.
LockOnlyFromPublished ==
    [][\A m \in Meals :
          (meals[m].status # "locked" /\ meals'[m].status = "locked") =>
              /\ meals[m].status = "published"
              /\ \A o \in ActiveOf(m) : orders'[o].locked]_vars

\* C16: a completed meal is never taken back to published, and a step that
\* takes a locked meal back to published clears the lock timestamp of the
\* meal's active orders.
UnlockOnlyFromLocked ==
    [][\A m \in Meals :
          /\ meals[m].status = "completed" => meals'[m].status # "published"
          /\ (meals[m].status = "locked" /\ meals'[m].status = "published") =>
                \A o \in ActiveOf(m) : ~orders'[o].locked]_vars

\* C17: complete called on a meal that is published, completed or canceled is
\* not reported as completed.
CompleteOnlyFromLocked ==
    \A m \in Meals :
        meals[m].status \in {"published", "completed", "canceled"} =>
            Rt_complete_meal_result(m) # "completed"

\* the refund rows of order o in ledger rows led
RefundsOf(led, o) ==
    {i \in 1..Len(led) : /\ led[i].type = "refund"
                         /\ led[i].ref_type = "order"
                         /\ led[i].ref_id = o}

\* what a repost of published meal m with the new price and capacity leaves
RepostDone(m, price, cap) ==
    /\ meals'[m] = [status |-> "published", price |-> price, cap |-> cap]
    /\ Len(orders') = Len(orders)
    /\ \A o \in OrderIds :
          IF o \in ActiveOf(m)
          THEN /\ orders'[o] = [orders[o] EXCEPT !.status = "canceled"]
               /\ Cardinality(RefundsOf(ledger', o)) = 1
               /\ \E i \in NewRows :
                     ledger'[i] = LedgerRow(orders[o].user, "refund", orders[o].amount, "order", o)
          ELSE orders'[o] = orders[o]
    /\ Len(ledger') = Len(ledger) + Cardinality(ActiveOf(m))
    /\ SubSeq(ledger', 1, Len(ledger)) = ledger
    /\ \A u \in Users :
          balance'[u] = balance[u]
                        + SumAmount(orders, {o \in ActiveOf(m) : orders[o].user = u})

\* C18: repost is accepted exactly when the meal is published; a repost step
\* gives the same meal the new price and capacity, leaves it published,
\* cancels every order of it that was active, writes exactly one refund row
\* for each of them and credits each owner with the amounts of their orders.
RepostCancelsAndRefunds ==
    [][\A m \in Meals :
          /\ Rt_repost_meal_result(m) = "ok" <=> meals[m].status = "published"
          /\ \A p \in Prices, c \in Caps :
                (meals[m].status = "published" /\ Rt_repost_meal(m, p, c)) =>
                    RepostDone(m, p, c)]_vars

\* a published meal whose two orders, active together, were canceled and
\* refunded in full
PublishedMealAllRefunded ==
    \E m \in Meals :
        /\ meals[m].status = "published"
        /\ Len(orders) = 2
        /\ \A o \in OrderIds : orders[o].meal = m /\ orders[o].status = "canceled"
        /\ Len(ledger) = 4
        /\ ledger[1].type = "debit" /\ ledger[2].type = "debit"
        /\ ledger[3] = LedgerRow(orders[1].user, "refund", orders[1].amount, "order", 1)
        /\ ledger[4] = LedgerRow(orders[2].user, "refund", orders[2].amount, "order", 2)
        /\ \A u \in Users : balance[u] = 0

\* C19: a modification keeps the capacity bound: a step that leaves the meal
\* and the number of orders as they are, taken where the active quantities of
\* the meal are within its capacity, leaves them within its capacity.
ModifyKeepsCapacity ==
    [][\A m \in Meals :
          (/\ meals'[m] = meals[m]
           /\ Len(orders') = Len(orders)
           /\ total_qty(m) <= meals[m].cap) =>
              SumQty(ActiveOf(m))' <= meals'[m].cap]_vars

\* the active orders of user u and meal m after the step
ActiveAfter(u, m) ==
    {o \in DOMAIN orders' : /\ orders'[o].user = u
                            /\ orders'[o].meal = m
                            /\ orders'[o].status = "active"}

\* the order a step has appended: of user u and meal m, with the new quantity
\* and options, and the only active order of the pair
ReplacedBy(u, m, qty, opt) ==
    LET n == Len(orders') IN
    /\ n = Len(orders) + 1
    /\ orders'[n].user = u /\ orders'[n].meal = m
    /\ orders'[n].qty = qty /\ orders'[n].opt = opt
    /\ ActiveAfter(u, m) = {n}

OnlyOwnerCancelsOrModifies ==
    [][\A t \in Threads :
          (/\ pc[t] \in {"cancel_write", "upd_refund"}
           /\ orders[loc[t].order].status = "active"
           /\ orders'[loc[t].order].status = "canceled") =>
              loc[t].caller = orders[loc[t].order].user]_vars

\* C22: the administrative operations take effect only for an administrator:
\* a step that is a lock, unlock or cancel of a meal, a balance adjustment or a
\* recharge requested by a caller who is not an administrator changes no meal,
\* order, ledger entry or balance.
NonAdminChangesNothing ==
    [][\A c \in Users \ Admins :
          (\/ \E m \in Meals : V1_lock_meal(c, m) \/ V1_unlock_meal(c, m) \/ V1_cancel_meal(c, m)
           \/ \E u \in Users, a \in Amounts :
                 \/ V1_adjust_user_balance(c, u, a)
                 \/ V1_recharge_user(c, u, a)
                 \/ Rt_recharge(c, u, a)) => UNCHANGED db]_vars

\* C23: the amount stored in an order when it is created is the meal's base
\* price times the quantity plus the price delta of the selected option, and
\* the step that creates it lowers the user's balance by that amount.
OrderAmountIncludesOptions ==
    [][\A o \in DOMAIN orders' \ OrderIds :
          /\ orders'[o].amount =
                calculate_order_amount(orders'[o].meal, orders'[o].qty, orders'[o].opt)
          /\ balance'[orders'[o].user] =
                balance[orders'[o].user] - orders'[o].amount
                   + SumAmount(orders, CanceledOf(orders'[o].user))]_vars

\* the conditions of a submit other than the balance
SubmitPreconditions(u, m, qty) ==
    /\ qty = 1
    /\ meals[m].status = "published"
    /\ ~has_active_order(u, m)
    /\ total_qty(m) + qty <= meals[m].cap

StaleWrite(t) ==
    /\ pc[t] = "create_write"
    /\ create_order_result(loc[t].user, loc[t].meal, loc[t].qty) # "ok"

\* C25: when two operations conflict on a write, one side is aborted and has
\* no effect: the step of a thread whose write conflicts with a commit made
\* since its validation leaves orders, ledger and balances unchanged.
ConflictAbortsOneSide ==
    [][\A t \in Threads :
          (StaleWrite(t) /\ pc'[t] # pc[t]) => UNCHANGED <<orders, ledger, balance>>]_vars

\* C26: the ledger is append-only: every step keeps the entries already
\* written, in place and unchanged, and at most adds entries after them.
LedgerAppendOnly ==
    [][/\ Len(ledger') >= Len(ledger)
       /\ \A i \in 1..Len(ledger) : ledger'[i] = ledger[i]]_vars

\* an order was refunded and a balance was repaired, with the debit and the
\* refund both on the ledger
RefundedAndRepaired ==
    /\ \E i, j \in 1..Len(ledger) :
          /\ i < j
          /\ ledger[i].type = "debit"
          /\ ledger[j].type = "refund"
          /\ ledger[j].ref_id = ledger[i].ref_id
    /\ \E k \in 1..Len(logs) : logs[k].action = "consistency_fix"

\* C27: an order that has become canceled is never active again: no step
\* changes the status of a canceled order.
CanceledOrderStaysCanceled ==
    [][\A o \in OrderIds :
          orders[o].status = "canceled" => orders'[o].status = "canceled"]_vars

\* an order is canceled while its meal is open again and its user holds a
\* newer, active order of the same meal
CanceledOrderNextToNewOrder ==
    \E o, n \in OrderIds :
        /\ o < n
        /\ orders[o].status = "canceled"
        /\ orders[n].status = "active"
        /\ orders[n].user = orders[o].user
        /\ orders[n].meal = orders[o].meal
        /\ meals[orders[o].meal].status = "published"

\* the step is a repair of u's balance ordered by the administrator c: u's
\* balance becomes the sum of u's ledger rows, nothing else in the database
\* changes, the log gains one 'consistency_fix' row with the balance before,
\* the balance after and their difference, and the balance check that follows
\* has no issue for u
FixRepairs(u, c) ==
    /\ balance' = [balance EXCEPT ![u] = ledger_balance(u)]
    /\ UNCHANGED <<meals, orders, ledger>>
    /\ Len(logs') = Len(logs) + 1
    /\ SubSeq(logs', 1, Len(logs)) = logs
    /\ LET row == logs'[Len(logs')] IN
          /\ row.action = "consistency_fix"
          /\ row.user = u
          /\ row.actor = c
          /\ row.detail.old_balance_cents = balance[u]
          /\ row.detail.correct_balance_cents = balance'[u]
          /\ row.detail.difference_cents = balance'[u] - balance[u]
    /\ \A r \in check_user_balance_consistency' : r.details.user_id # u

AuditorOnlyOnRequest ==
    [][/\ \A c \in Users : check_data_consistency(c) => UNCHANGED db
       /\ ( \/ (balance' # balance /\ ledger' = ledger)
            \/ (Len(logs') > Len(logs) /\ logs'[Len(logs')].action = "consistency_fix") )
              => \E u \in Users, c \in Admins : fix_balance_inconsistency(u, c)
       /\ logs' # logs =>
              \/ \E c \in Admins : check_data_consistency(c)
              \/ \E u \in Users, c \in Admins : fix_balance_inconsistency(u, c)]_vars

\* a consistency check has found issues and the mismatch it reported is
\* still there
IssuesFoundAndLeft ==
    /\ Len(logs) = 1
    /\ logs[1].action = "consistency_check"
    /\ logs[1].detail.total_issues > 0
    /\ balance_mismatch # {}
    /\ Cardinality(Issues) = logs[1].detail.total_issues

\* the sum of the amounts of u's entries among the first n ledger entries
RECURSIVE LedgerSumTo(_, _)
LedgerSumTo(n, u) ==
    IF n = 0 THEN 0
    ELSE LedgerSumTo(n - 1, u) + (IF ledger[n].user = u THEN ledger[n].amount ELSE 0)

MealLoc(m, price, cap) ==
    [NoLoc EXCEPT !.op = "create_meal", !.meal = m, !.amount = price, !.qty = cap]

\* SELECT meal_id, status FROM meals WHERE date=? AND slot=?
Rt_create_meal_select(t, m, price, cap) ==
    /\ Idle(t)
    /\ IF meals[m].status = "absent" THEN Goto(t, "meal_insert", MealLoc(m, price, cap))
       ELSE IF meals[m].status = "canceled" THEN Goto(t, "meal_update", MealLoc(m, price, cap))
       ELSE Finish(t)
    /\ UNCHANGED db

\* INSERT INTO meals: the unique index on (date, slot) turns down a second
\* row, and the handler answers 409
Rt_create_meal_insert(t) ==
    /\ pc[t] = "meal_insert"
    /\ meals' = IF meals[loc[t].meal].status = "absent"
                THEN [meals EXCEPT ![loc[t].meal] =
                         [status |-> "published", price |-> loc[t].amount, cap |-> loc[t].qty]]
                ELSE meals
    /\ UNCHANGED <<orders, ledger, balance>>
    /\ Finish(t)

\* UPDATE meals SET ..., status='published' WHERE meal_id=?
Rt_create_meal_update(t) ==
    /\ pc[t] = "meal_update"
    /\ meals' = [meals EXCEPT ![loc[t].meal] =
                    [status |-> "published", price |-> loc[t].amount, cap |-> loc[t].qty]]
    /\ UNCHANGED <<orders, ledger, balance>>
    /\ Finish(t)

\* MealService.create_meal: admin check, existence check and INSERT in one
\* transaction under the database lock
Svc_create_meal_result(creator, m) ==
    IF creator \notin Admins THEN "PermissionDeniedError"
    ELSE IF meals[m].status # "absent" THEN "BusinessRuleError"
    ELSE "ok"

Svc_create_meal(creator, m, price, cap) ==
    /\ meals' = IF Svc_create_meal_result(creator, m) = "ok"
                THEN [meals EXCEPT ![m] = [status |-> "published", price |-> price, cap |-> cap]]
                ELSE meals
    /\ UNCHANGED <<orders, ledger, balance>>
    /\ Done

\* meal creation by both entry points next to lock, cancel and orders; the
\* requests of routers/meals.py interleave statement by statement
MealNext ==
    \/ \E t \in Threads, m \in Meals, p \in Prices, c \in Caps : Rt_create_meal_select(t, m, p, c)
    \/ \E t \in Threads : Rt_create_meal_insert(t)
    \/ \E t \in Threads : Rt_create_meal_update(t)
    \/ \E u \in Users, m \in Meals, p \in Prices, c \in Caps : Svc_create_meal(u, m, p, c)
    \/ \E m \in Meals : Rt_lock_meal(m)
    \/ \E m \in Meals : Rt_cancel_meal(m)
    \/ \E u \in Users, m \in Meals, q \in Qtys, opt \in NoOpts : Rt_create_order(u, m, q, opt)

MealSpec == Init /\ [][MealNext]_vars

\* a step of a meal creation that writes to the meals table
CreateMealWrite(m) ==
    \/ \E t \in Threads : loc[t].meal = m /\ Rt_create_meal_insert(t)
    \/ \E t \in Threads : loc[t].meal = m /\ Rt_create_meal_update(t)
    \/ \E u \in Users, p \in Prices, c \in Caps : Svc_create_meal(u, m, p, c)

\* C31: a date and slot holds at most one meal: a creation that reaches the
\* meals table while the slot holds a meal that is not canceled changes
\* nothing, also when two creations run side by side
OneMealPerSlot ==
    [][\A m \in Meals :
          meals[m].status \in {"published", "locked", "completed"} /\ CreateMealWrite(m)
            => meals'[m] = meals[m]]_vars

\* -------------------------------------------------- identity resolution
\* the users table before any identity has made its first contact
IdentityInit ==
    /\ meals   = [m \in Meals |-> NoMeal]
    /\ orders  = <<>>
    /\ ledger  = <<>>
    /\ balance = [u \in Users |-> 0]
    /\ pc      = [t \in Threads |-> "idle"]
    /\ loc     = [t \in Threads |-> NoLoc]
    /\ logs    = <<>>
    /\ users   = [u \in Users |-> 0]

\* INSERT INTO users(open_id): the UNIQUE constraint on open_id turns down a
\* second row of the identity
insert_user_result(u) == IF users[u] = 0 THEN "ok" ELSE "ConstraintException"

insert_user(u) == IF insert_user_result(u) = "ok" THEN [users EXCEPT ![u] = 1] ELSE users

\* OrderService._get_or_create_user: SELECT id FROM users WHERE open_id=? ...
get_or_create_user_select(t, u) ==
    /\ Idle(t)
    /\ IF users[u] > 0 THEN Finish(t)
       ELSE Goto(t, "user_insert", [NoLoc EXCEPT !.op = "get_or_create_user", !.user = u])
    /\ UNCHANGED db

\* ... and, no row found, INSERT INTO users(open_id) VALUES (?); nothing
\* catches the exception of the constraint
get_or_create_user_insert(t) ==
    /\ pc[t] = "user_insert"
    /\ users' = insert_user(loc[t].user)
    /\ pc'  = [pc EXCEPT ![t] = "idle"]
    /\ loc' = [loc EXCEPT ![t] = NoLoc]
    /\ UNCHANGED <<db, logs>>

\* get_current_user_id is a coroutine without an await: two of its calls
\* never interleave with each other, but the threads of the service do
\* interleave with it
get_current_user_id_select(t, u) ==
    /\ Idle(t)
    /\ \A s \in Threads : pc[s] # "current_user_insert"
    /\ IF users[u] > 0 THEN Finish(t)
       ELSE Goto(t, "current_user_insert", [NoLoc EXCEPT !.op = "get_current_user_id", !.user = u])
    /\ UNCHANGED db

\* INSERT INTO users (open_id, is_admin); an exception becomes HTTP 500
get_current_user_id_insert(t) ==
    /\ pc[t] = "current_user_insert"
    /\ users' = insert_user(loc[t].user)
    /\ pc'  = [pc EXCEPT ![t] = "idle"]
    /\ loc' = [loc EXCEPT ![t] = NoLoc]
    /\ UNCHANGED <<db, logs>>

\* _ensure_user: INSERT INTO users ... WHERE NOT EXISTS (...), one statement,
\* its exceptions swallowed
ensure_user(u) ==
    /\ users' = IF users[u] = 0 THEN [users EXCEPT ![u] = 1] ELSE users
    /\ UNCHANGED <<db, pc, loc, logs>>

\* first contacts through the three resolvers, the service's step by step,
\* next to meal and order requests of identities that are already known
IdentityNext ==
    \/ \E t \in Threads, u \in Users : get_or_create_user_select(t, u)
    \/ \E t \in Threads : get_or_create_user_insert(t)
    \/ \E t \in Threads, u \in Users : get_current_user_id_select(t, u)
    \/ \E t \in Threads : get_current_user_id_insert(t)
    \/ \E u \in Users : ensure_user(u)
    \/ \E a \in Admins, m \in Meals, p \in Prices, c \in Caps : users[a] > 0 /\ Rt_create_meal(m, p, c)
    \/ \E u \in Users, m \in Meals, q \in Qtys, opt \in NoOpts : users[u] > 0 /\ Rt_create_order(u, m, q, opt)

IdentitySpec == IdentityInit /\ [][IdentityNext]_vars

\* C32: an identity never has more than one row in the users table, and no
\* resolver's INSERT fails because another call has created the row since
\* the resolver looked for it
IdentityResolutionSafe ==
    /\ [](\A u \in Users : users[u] <= 1)
    /\ [][\A t \in Threads :
            get_or_create_user_insert(t) \/ get_current_user_id_insert(t)
              => insert_user_result(loc[t].user) = "ok"]_vars

\* ------------------------------------------- the audit rows of cancel_meal
MaxMealCancels == 1

\* one 'order_cancel' row per order the loop of cancel_meal refunds, in the
\* order of the loop
RECURSIVE OrderCancelLogs(_, _, _)
OrderCancelLogs(S, actor, m) ==
    IF S = {} THEN <<>>
    ELSE LET o == Min(S) IN
         <<LogRow(orders[o].user, actor, "order_cancel",
                  [order_id |-> o, meal_id |-> m, amount_cents |-> orders[o].amount])>>
         \o OrderCancelLogs(S \ {o}, actor, m)

\* SELECT user_id FROM orders WHERE meal_id=? AND status='canceled', read
\* after the COMMIT of the cascade
canceled_after_cancel(m) ==
    {o \in OrderIds : orders[o].meal = m /\ CascadeOrders(ActiveOf(m))[o].status = "canceled"}

\* the 'meal_cancel' summary row: affected_count is the number of rows of
\* that SELECT, affected_users the users found for their user_id
MealCancelLog(actor, m) ==
    LogRow("none", actor, "meal_cancel",
           [meal_id |-> m,
            affected_count |-> Cardinality(canceled_after_cancel(m)),
            affected_users |-> {orders[o].user : o \in canceled_after_cancel(m)}])

MealCancels == Cardinality({k \in 1..Len(logs) : logs[k].action = "meal_cancel"})

\* cancel_meal with the rows it inserts into logs
Rt_cancel_meal_logged(actor, m) ==
    /\ MealCancels < MaxMealCancels
    /\ Rt_cancel_meal_writes(m)
    /\ logs' = IF Rt_cancel_meal_result(m) # "ok" THEN logs
               ELSE logs \o OrderCancelLogs(ActiveOf(m), actor, m) \o <<MealCancelLog(actor, m)>>
    /\ UNCHANGED <<pc, loc, users>>

\* orders of the routers and a meal that is canceled with its audit rows
LogNext ==
    \/ \E m \in Meals, p \in Prices, c \in Caps : Rt_create_meal(m, p, c)
    \/ \E u \in Users, m \in Meals, q \in Qtys, opt \in NoOpts : Rt_create_order(u, m, q, opt)
    \/ \E u \in Users, o \in OrderIdArgs : Rt_delete_order(u, o)
    \/ \E m \in Meals : Rt_lock_meal(m)
    \/ \E a \in Admins, m \in Meals : Rt_cancel_meal_logged(a, m)

LogSpec == Init /\ [][LogNext]_vars

\* the rows a step appends to logs
NewLogs == SubSeq(logs', Len(logs) + 1, Len(logs'))

\* C33: a successful cancel of a meal writes one audit row for every user
\* whose order this call cancels, and one summary row whose users and count
\* are those of the orders this call cancels
MealCancelAuditsItsOwnOrders ==
    [][\A a \in Admins, m \in Meals :
          Rt_cancel_meal_logged(a, m) /\ Rt_cancel_meal_result(m) = "ok" =>
            LET S == ActiveOf(m)
                summary == NewLogs[Len(NewLogs)]
            IN /\ Len(NewLogs) = Cardinality(S) + 1
               /\ \A o \in S :
                    Cardinality({k \in 1..Len(NewLogs) - 1 :
                        NewLogs[k].action = "order_cancel" /\ NewLogs[k].user = orders[o].user}) = 1
               /\ summary.action = "meal_cancel"
               /\ summary.detail.affected_users = {orders[o].user : o \in S}
               /\ summary.detail.affected_count = Cardinality(S)]_vars

\* C34: whatever way cancel_order, update_order and the cancel of the meal
\* interleave, an order has at most one refund row in the ledger
AtMostOneRefundPerOrder ==
    \A o \in OrderIds : Cardinality(RefundsOf(ledger, o)) <= 1

\* the total of u's recharges
RechargeTotal(u) ==
    SumAmount(ledger, {i \in 1..Len(ledger) : ledger[i].user = u /\ ledger[i].type = "recharge"})

\* the sum of amount_cents over u's active orders
ActiveAmount(u) ==
    SumAmount(orders, {o \in OrderIds : orders[o].user = u /\ orders[o].status = "active"})

\* C35: while no request is in progress, a user's balance is the initial 0
\* plus the user's recharges minus the amounts of the user's active orders
MoneyConserved ==
    AllIdle => \A u \in Users : balance[u] = RechargeTotal(u) - ActiveAmount(u)

\* C36: a canceled meal has no active order, whatever way submit_order and
\* modify_order interleave with the cancel of the meal
CanceledMealHasNoActiveOrder ==
    \A o \in OrderIds :
        orders[o].status = "active" => meals[orders[o].meal].status # "canceled"

\* the debit rows of the ledger that reference order o
DebitsOf(o) ==
    {i \in 1..Len(ledger) : /\ ledger[i].type = "debit"
                            /\ ledger[i].ref_type = "order"
                            /\ ledger[i].ref_id = o}

LockStampFollowsMeal ==
    AllIdle => \A o \in OrderIds :
        orders[o].status = "active" =>
            (orders[o].locked <=> meals[orders[o].meal].status = "locked")

\* C39: an in-place edit of a meal whose capacity covers its active orders
\* leaves a capacity that still covers them
PatchKeepsCapacityAboveOrders ==
    [][\A m \in Meals, p \in PatchPrices, c \in Caps :
          Rt_update_meal_patch(m, p, c) /\ meals[m].cap >= total_qty(m)
            => meals'[m].cap >= total_qty(m)]_vars

\* a step of a submit, modify or cancel request of caller u that writes
OrderRequestBy(u) ==
    \/ \E t \in Threads :
          /\ loc[t].caller = u
          /\ \/ execute_create_order_transaction(t)
             \/ execute_cancel_order_transaction(t)
             \/ cancel_order_internal(t)
             \/ update_order_create(t)
    \/ \E m \in Meals, q \in Qtys, opt \in Opts :
          Rt_create_order(u, m, q, opt) \/ V1_create_order(u, m, q, opt)
    \/ \E o \in OrderIdArgs : Rt_delete_order(u, o) \/ V1_cancel_order(u, o)
    \/ \E o \in OrderIdArgs, q \in Qtys, opt \in Opts :
          Rt_update_order(u, o, q, opt) \/ V1_update_order(u, o, q, opt)

\* a cancel or a repost of meal m
MealRequestOn(m) ==
    \/ Rt_cancel_meal(m)
    \/ \E p \in Prices, c \in Caps : Rt_repost_meal(m, p, c)

\* C40: a submit, modify or cancel request of user u changes no balance, no
\* ledger row and no order of another user; a cancel or repost of meal m
\* changes no order of another meal and no balance of a user who has no
\* active order of m
OperationsKeepToTheirSubject ==
    [][/\ \A u \in Users : OrderRequestBy(u) =>
             /\ \A v \in Users \ {u} : balance'[v] = balance[v]
             /\ \A i \in NewRows : ledger'[i].user = u
             /\ \A o \in OrderIds : orders'[o] # orders[o] => orders[o].user = u
             /\ \A o \in DOMAIN orders' \ OrderIds : orders'[o].user = u
       /\ \A m \in Meals : MealRequestOn(m) =>
             /\ \A o \in OrderIds : orders[o].meal # m => orders'[o] = orders[o]
             /\ \A v \in Users :
                   (\A o \in ActiveOf(m) : orders[o].user # v) => balance'[v] = balance[v]]_vars

====
